---- MODULE Spec2Model ----
(***************************************************************************)
(* Engram Trace Lite: the consolidation engine (consolidator.ts).          *)
(*                                                                         *)
(* Units.  Times are whole days (createdAt, now).  importance is held in   *)
(* tenths (5 is 0.5), thresholds of similarity in hundredths (92 is 0.92). *)
(* A similarity is the real number dot / sqrt(den), held as the pair       *)
(* [dot, den] and compared exactly with a threshold by SimCmp.  The input  *)
(* values below are such that IEEE-754 arithmetic of the source gives the  *)
(* same comparisons as exact arithmetic (embeddings with integer norms,    *)
(* scores that are multiples of 0.5).                                      *)
(*                                                                         *)
(* Objects live in a heap: arrays of records (arrs), records (objs), tag   *)
(* arrays (tagArrs) and metadata objects (metas) are referred to by their  *)
(* index, so that a spread copy {...m} shares m's tags and metadata, as in *)
(* the source.  Reference 0 of a metadata field is `undefined`.            *)
(***************************************************************************)
EXTENDS Integers, Sequences, FiniteSets, TLC

VARIABLES
  heap,    \* the objects: [arrs, objs, tagArrs, metas]
  input,   \* the caller's collection: a reference to an array of the heap
  now,     \* the clock, Date.now(), in days
  pc,      \* "idle", "awaiting" (consolidate awaits the summarizer), "returned"
  frame,   \* the locals of the consolidate call in progress or last returned
  call,    \* the arguments of the last call, with a deep copy of its input
  ret,     \* what the last call returned
  log,     \* the invocations of summarizer.summarize and their outcomes
  calls    \* the number of calls made

vars == <<heap, input, now, pc, frame, call, ret, log, calls>>

\* ---------------------------------------------------------------- bounds

\* The largest collection and the longest sequence of calls of SpecDecay.
MaxDecayMems == 2
MaxDecayCalls == 2
\* The largest collection of SpecMatch (deduplicate, cluster, forget).
MaxMatchMems == 3
\* The largest collection of Spec (consolidate), and the days that may pass
\* while it awaits the summarizer.
MaxPipeMems == 3
MaxTicks == 1
\* The largest collection and the longest sequence of calls of SpecArchive.
MaxArchiveMems == 2
MaxArchiveCalls == 2

\* ------------------------------------------------------------- constants

MinSummaryLength == 10
MaxAccessBoostHalfDays == 10

Tiers == <<"hot", "warm", "cold", "archive">>

TierSet == {"hot", "warm", "cold", "archive"}

TierRank(t) == CHOOSE k \in 1..4 : Tiers[k] = t

Ellipsis == <<".", ".", ".">>

DEFAULTS ==
  [deduplicateThreshold |-> 92, clusterThreshold |-> 78, minClusterSize |-> 3,
   hotDays |-> 7, warmDays |-> 30, coldDays |-> 365, archiveTruncateLength |-> 200]

\* { ...DEFAULTS, ...config }: the fields config has override the defaults.
MergeConfig(config) ==
  [k \in DOMAIN DEFAULTS |-> IF k \in DOMAIN config THEN config[k] ELSE DEFAULTS[k]]

\* ------------------------------------------------------------------ heap

EmptyHeap == [arrs |-> <<>>, objs |-> <<>>, tagArrs |-> <<>>, metas |-> <<>>]

AllocArr(h, a) == [h EXCEPT !.arrs = Append(@, a)]

AllocObj(h, o) == [h EXCEPT !.objs = Append(@, o)]

AllocTags(h, t) == [h EXCEPT !.tagArrs = Append(@, t)]

AllocMeta(h, m) == [h EXCEPT !.metas = Append(@, m)]

NewArr(h) == Len(h.arrs) + 1

NewObj(h) == Len(h.objs) + 1

NewTags(h) == Len(h.tagArrs) + 1

NewMeta(h) == Len(h.metas) + 1

\* The fields of a metadata object the engine writes; 0, -1 and FALSE stand
\* for a key that is not there.
EmptyMeta ==
  [consolidatedFrom |-> 0, consolidatedAt |-> -1, truncated |-> FALSE,
   originalLength |-> -1]

\* { ...m.metadata }: a spread of undefined has no keys.
MetaOf(h, ref) == IF ref = 0 THEN EmptyMeta ELSE h.metas[ref]

\* What a deep copy of a record holds.
DeepMem(h, ref) ==
  LET m == h.objs[ref]
  IN [id |-> m.id, content |-> m.content, embedding |-> m.embedding,
      tags |-> h.tagArrs[m.tags], importance |-> m.importance, tier |-> m.tier,
      createdAt |-> m.createdAt, accessCount |-> m.accessCount,
      hasMetadata |-> m.metadata # 0, metadata |-> MetaOf(h, m.metadata)]

DeepArr(h, arr) == [i \in 1..Len(h.arrs[arr]) |-> DeepMem(h, h.arrs[arr][i])]

\* ------------------------------------------------------------------ math

ZeroSim == [dot |-> 0, den |-> 1]

RECURSIVE DotProduct(_, _, _)
DotProduct(a, b, k) == IF k = 0 THEN 0 ELSE DotProduct(a, b, k - 1) + a[k] * b[k]

\* A slip: two zero-norm vectors taken for identical ones.
cosineSimilarityZeroNorm(a, b) ==
  IF Len(a) # Len(b) \/ Len(a) = 0 THEN ZeroSim
  ELSE LET dot == DotProduct(a, b, Len(a))
           normA == DotProduct(a, a, Len(a))
           normB == DotProduct(b, b, Len(a))
       IN IF normA * normB = 0 THEN [dot |-> 1, den |-> 1]
          ELSE [dot |-> dot, den |-> normA * normB]

cosineSimilarity(a, b) ==
  IF Len(a) # Len(b) \/ Len(a) = 0 THEN ZeroSim
  ELSE LET dot == DotProduct(a, b, Len(a))
           normA == DotProduct(a, a, Len(a))
           normB == DotProduct(b, b, Len(a))
       IN IF normA * normB = 0 THEN ZeroSim ELSE [dot |-> dot, den |-> normA * normB]

Sign(x) == IF x > 0 THEN 1 ELSE IF x < 0 THEN -1 ELSE 0

\* The sign of sim - t/100, for sim = dot / sqrt(den).
SimCmp(sim, t) ==
  LET l == sim.dot * 100
  IN IF l >= 0 /\ t < 0 THEN 1
     ELSE IF l < 0 /\ t >= 0 THEN -1
     ELSE IF l >= 0 THEN Sign(l * l - t * t * sim.den)
     ELSE Sign(t * t * sim.den - l * l)

SimGT(sim, t) == SimCmp(sim, t) = 1

SimGE(sim, t) == SimCmp(sim, t) >= 0

SimLT(sim, t) == SimCmp(sim, t) = -1

Min(a, b) == IF a <= b THEN a ELSE b

Max(a, b) == IF a >= b THEN a ELSE b

\* importance + accessCount * 0.1, in tenths.
Score(m) == m.importance + m.accessCount

\* ----------------------------------------------------------------- decay

\* effectiveAge = (ageDays - accessBoost) / importanceMultiplier as the
\* fraction num / den: ageDays - min(accessCount * 0.5, 5) is
\* (2 * ageDays - min(accessCount, 10)) / 2 and 1 + importance * 2 is
\* (10 + 2 * importance) / 10 with importance in tenths.
EffectiveAge(m, nowv) ==
  LET ageDays == nowv - m.createdAt
      accessBoost2 == Min(m.accessCount, MaxAccessBoostHalfDays)
      importanceMultiplier10 == 10 + m.importance * 2
  IN [num |-> 5 * (2 * ageDays - accessBoost2), den |-> importanceMultiplier10]

\* A slip: >= for >.
AgeReaches(age, days) ==
  IF age.den > 0 THEN age.num >= days * age.den
  ELSE IF age.den < 0 THEN age.num <= days * age.den
  ELSE age.num > 0

\* effectiveAge > days.  A zero multiplier gives +-Infinity or NaN.
AgeExceeds(age, days) ==
  IF age.den > 0 THEN age.num > days * age.den
  ELSE IF age.den < 0 THEN age.num < days * age.den
  ELSE age.num > 0

\* A slip: independent ifs in place of else-if, so that one call cascades.
NewTierCascade(m, cfg, nowv) ==
  LET effectiveAge == EffectiveAge(m, nowv)
      t1 == IF m.tier = "hot" /\ AgeExceeds(effectiveAge, cfg.hotDays)
            THEN "warm" ELSE m.tier
      t2 == IF t1 = "warm" /\ AgeExceeds(effectiveAge, cfg.warmDays)
            THEN "cold" ELSE t1
  IN IF t2 = "cold" /\ AgeExceeds(effectiveAge, cfg.coldDays) THEN "archive" ELSE t2

NewTier(m, cfg, nowv) ==
  LET effectiveAge == EffectiveAge(m, nowv)
  IN IF m.tier = "hot" /\ AgeExceeds(effectiveAge, cfg.hotDays) THEN "warm"
     ELSE IF m.tier = "warm" /\ AgeExceeds(effectiveAge, cfg.warmDays) THEN "cold"
     ELSE IF m.tier = "cold" /\ AgeExceeds(effectiveAge, cfg.coldDays) THEN "archive"
     ELSE m.tier

\* memories.map(m => ...) over the first k records.
RECURSIVE DecayMap(_, _, _, _, _)
DecayMap(h, refs, cfg, nowv, k) ==
  IF k = 0 THEN [heap |-> h, out |-> <<>>, changed |-> 0]
  ELSE LET p == DecayMap(h, refs, cfg, nowv, k - 1)
           m == p.heap.objs[refs[k]]
           newTier == NewTier(m, cfg, nowv)
       IN IF newTier # m.tier
          THEN [heap |-> AllocObj(p.heap, [m EXCEPT !.tier = newTier]),
                out |-> Append(p.out, NewObj(p.heap)),
                changed |-> p.changed + 1]
          ELSE [heap |-> p.heap, out |-> Append(p.out, refs[k]),
                changed |-> p.changed]

decay(h, memories, config, nowv) ==
  LET cfg == MergeConfig(config)
      r == DecayMap(h, h.arrs[memories], cfg, nowv, Len(h.arrs[memories]))
  IN [heap |-> AllocArr(r.heap, r.out), memories |-> NewArr(r.heap),
      changed |-> r.changed]

\* ----------------------------------------------------------- deduplicate

\* The records an array refers to, in order.
Records(h, memories) == [i \in 1..Len(h.arrs[memories]) |-> h.objs[h.arrs[memories][i]]]

\* A slip: the entries kept are collected last first.
RECURSIVE FilterOutReversed(_, _, _)
FilterOutReversed(refs, remove, k) ==
  IF k = 0 THEN <<>>
  ELSE IF k \in remove THEN FilterOutReversed(refs, remove, k - 1)
  ELSE <<refs[k]>> \o FilterOutReversed(refs, remove, k - 1)

\* array.filter((_, i) => !remove.has(i)) over the first k entries.
RECURSIVE FilterOut(_, _, _)
FilterOut(refs, remove, k) ==
  IF k = 0 THEN <<>>
  ELSE IF k \in remove THEN FilterOut(refs, remove, k - 1)
  ELSE Append(FilterOut(refs, remove, k - 1), refs[k])

\* A slip: > for >=, so that the earlier record goes on equal scores.
DedupVictimStrict(ms, i, j) == IF Score(ms[i]) > Score(ms[j]) THEN j ELSE i

\* Which of a duplicate pair (i, j) goes: j unless i scores strictly lower.
DedupVictim(ms, i, j) == IF Score(ms[i]) >= Score(ms[j]) THEN j ELSE i

\* A slip: the default threshold in place of the one given.
IsDuplicateByDefault(sim, threshold) == SimGT(sim, DEFAULTS.deduplicateThreshold)

\* sim > threshold
IsDuplicate(sim, threshold) == SimGT(sim, threshold)

\* The inner loop from j on, for the outer index i.  st.remove is the set
\* `remove`; st.trace records each comparison made (the pair, the set
\* before it, and the index removed, 0 for none).
RECURSIVE DedupInner(_, _, _, _, _)
DedupInner(ms, threshold, i, j, st) ==
  IF j > Len(ms) THEN st
  ELSE IF j \in st.remove THEN DedupInner(ms, threshold, i, j + 1, st)
  ELSE LET sim == cosineSimilarity(ms[i].embedding, ms[j].embedding)
           ev == [i |-> i, j |-> j, before |-> st.remove, removed |-> 0]
       IN IF IsDuplicate(sim, threshold)
          THEN LET v == DedupVictim(ms, i, j)
                   st2 == [remove |-> st.remove \cup {v},
                           trace |-> Append(st.trace, [ev EXCEPT !.removed = v])]
               IN IF v = j THEN DedupInner(ms, threshold, i, j + 1, st2)
                  ELSE st2
          ELSE DedupInner(ms, threshold, i, j + 1,
                          [st EXCEPT !.trace = Append(@, ev)])

RECURSIVE DedupOuter(_, _, _, _)
DedupOuter(ms, threshold, i, st) ==
  IF i > Len(ms) THEN st
  ELSE IF i \in st.remove THEN DedupOuter(ms, threshold, i + 1, st)
  ELSE DedupOuter(ms, threshold, i + 1, DedupInner(ms, threshold, i, i + 1, st))

deduplicate(h, memories, threshold) ==
  LET refs == h.arrs[memories]
  IN IF Len(refs) < 2
     THEN [heap |-> h, memories |-> memories, removed |-> 0, trace |-> <<>>,
           remove |-> {}]
     ELSE LET st == DedupOuter(Records(h, memories), threshold, 1,
                               [remove |-> {}, trace |-> <<>>])
          IN [heap |-> AllocArr(h, FilterOut(refs, st.remove, Len(refs))),
              memories |-> NewArr(h), removed |-> Cardinality(st.remove),
              trace |-> st.trace, remove |-> st.remove]

\* --------------------------------------------------------------- cluster

\* A slip: every tier but hot.
IsCandidateNotHot(m) == m.tier # "hot"

IsCandidate(m) == m.tier = "warm" \/ m.tier = "cold"

\* The indices of the warm and cold records among the first k, in order.
RECURSIVE Candidates(_, _)
Candidates(ms, k) ==
  IF k = 0 THEN <<>>
  ELSE IF IsCandidate(ms[k]) THEN Append(Candidates(ms, k - 1), k)
  ELSE Candidates(ms, k - 1)

SeqToSet(s) == {s[i] : i \in 1..Len(s)}

JoinsSeed(sim, threshold) == SimGE(sim, threshold)

\* The inner loop over the candidates from position o on.
RECURSIVE ClusterScan(_, _, _, _, _, _)
ClusterScan(ms, cand, seedIdx, threshold, o, st) ==
  IF o > Len(cand) THEN st
  ELSE LET otherIdx == cand[o]
       IN IF otherIdx \in st.assigned
          THEN ClusterScan(ms, cand, seedIdx, threshold, o + 1, st)
          ELSE IF JoinsSeed(cosineSimilarity(ms[seedIdx].embedding,
                                             ms[otherIdx].embedding), threshold)
               THEN ClusterScan(ms, cand, seedIdx, threshold, o + 1,
                                [group |-> Append(st.group, otherIdx),
                                 assigned |-> st.assigned \cup {otherIdx}])
               ELSE ClusterScan(ms, cand, seedIdx, threshold, o + 1, st)

KeepsGroup(group, minClusterSize) == Len(group) >= minClusterSize

\* The outer loop over the seeds from position c on.
RECURSIVE ClusterSeeds(_, _, _, _, _)
ClusterSeeds(ms, cand, cfg, c, st) ==
  IF c > Len(cand) THEN st.clusters
  ELSE LET seedIdx == cand[c]
       IN IF seedIdx \in st.assigned
          THEN ClusterSeeds(ms, cand, cfg, c + 1, st)
          ELSE LET g == ClusterScan(ms, cand, seedIdx, cfg.clusterThreshold, 1,
                                    [group |-> <<seedIdx>>,
                                     assigned |-> st.assigned \cup {seedIdx}])
               IN IF KeepsGroup(g.group, cfg.minClusterSize)
                  THEN ClusterSeeds(ms, cand, cfg, c + 1,
                                    [assigned |-> g.assigned,
                                     clusters |-> Append(st.clusters, g.group)])
                  ELSE ClusterSeeds(ms, cand, cfg, c + 1,
                                    [assigned |-> g.assigned \ SeqToSet(g.group),
                                     clusters |-> st.clusters])

cluster(h, memories, config) ==
  LET cfg == MergeConfig(config)
      ms == Records(h, memories)
      candidates == Candidates(ms, Len(ms))
  IN IF Len(candidates) < cfg.minClusterSize THEN <<>>
     ELSE ClusterSeeds(ms, candidates, cfg, 1, [assigned |-> {}, clusters |-> <<>>])

\* ---------------------------------------------------------------- forget

\* A slip: <= for <, so that a record at the threshold stays.
SurvivesAtThreshold(sim, threshold) == ~SimGT(sim, threshold)

\* cosineSimilarity(m.embedding, queryEmbedding) < threshold
Survives(sim, threshold) == SimLT(sim, threshold)

RECURSIVE ForgetFilter(_, _, _, _, _)
ForgetFilter(h, refs, queryEmbedding, threshold, k) ==
  IF k = 0 THEN <<>>
  ELSE LET rest == ForgetFilter(h, refs, queryEmbedding, threshold, k - 1)
       IN IF Survives(cosineSimilarity(h.objs[refs[k]].embedding, queryEmbedding),
                      threshold)
          THEN Append(rest, refs[k])
          ELSE rest

forget(h, memories, queryEmbedding, threshold) ==
  LET refs == h.arrs[memories]
      survivors == ForgetFilter(h, refs, queryEmbedding, threshold, Len(refs))
  IN [heap |-> AllocArr(h, survivors), memories |-> NewArr(h),
      forgotten |-> Len(refs) - Len(survivors)]

\* --------------------------------------------------------------- archive

Includes(s, x) == \E i \in 1..Len(s) : s[i] = x

\* A slip: >= for >, so that content of exactly truncateLength goes too.
ShouldTruncateAtLength(h, m, truncateLength) ==
  /\ m.tier = "archive"
  /\ Len(m.content) >= truncateLength
  /\ ~Includes(h.tagArrs[m.tags], "consolidated")

\* m.tier === 'archive' && m.content.length > truncateLength &&
\* !m.tags.includes('consolidated')
ShouldTruncate(h, m, truncateLength) ==
  /\ m.tier = "archive"
  /\ Len(m.content) > truncateLength
  /\ ~Includes(h.tagArrs[m.tags], "consolidated")

\* m.content.slice(0, truncateLength) + '...'
Truncated(content, truncateLength) ==
  SubSeq(content, 1, Min(truncateLength, Len(content))) \o Ellipsis

RECURSIVE ArchiveMap(_, _, _, _)
ArchiveMap(h, refs, truncateLength, k) ==
  IF k = 0 THEN [heap |-> h, out |-> <<>>, changed |-> 0]
  ELSE LET p == ArchiveMap(h, refs, truncateLength, k - 1)
           m == p.heap.objs[refs[k]]
       IN IF ShouldTruncate(p.heap, m, truncateLength)
          THEN LET meta == [MetaOf(p.heap, m.metadata) EXCEPT
                              !.truncated = TRUE,
                              !.originalLength = Len(m.content)]
                   h2 == AllocMeta(p.heap, meta)
                   obj == [m EXCEPT !.content = Truncated(m.content, truncateLength),
                                    !.metadata = NewMeta(p.heap)]
               IN [heap |-> AllocObj(h2, obj), out |-> Append(p.out, NewObj(h2)),
                   changed |-> p.changed + 1]
          ELSE [heap |-> p.heap, out |-> Append(p.out, refs[k]),
                changed |-> p.changed]

archive(h, memories, truncateLength) ==
  IF truncateLength <= 0 THEN [heap |-> h, memories |-> memories, changed |-> 0]
  ELSE LET refs == h.arrs[memories]
           r == ArchiveMap(h, refs, truncateLength, Len(refs))
       IN [heap |-> AllocArr(r.heap, r.out), memories |-> NewArr(r.heap),
           changed |-> r.changed]

\* A slip: c[m.tier] = 1, so that a tier counts once however many it holds.
countByTierOnce(h, memories) ==
  [t \in TierSet |->
     IF \E i \in 1..Len(h.arrs[memories]) : h.objs[h.arrs[memories][i]].tier = t
     THEN 1 ELSE 0]

\* for (const m of memories) c[m.tier] = (c[m.tier] || 0) + 1
countByTier(h, memories) ==
  [t \in TierSet |->
     Cardinality({i \in 1..Len(h.arrs[memories]) : h.objs[h.arrs[memories][i]].tier = t})]

\* ----------------------------------------------------- summarizeClusters

\* group.map(i => memories[i].content)
Texts(h, memories, group) ==
  [k \in 1..Len(group) |-> h.objs[h.arrs[memories][group[k]]].content]

\* A slip: sa > sb, so that the later member wins on equal scores.
RECURSIVE BestLast(_, _, _)
BestLast(ms, group, k) ==
  IF k = 1 THEN group[1]
  ELSE LET a == BestLast(ms, group, k - 1)
           b == group[k]
       IN IF Score(ms[a]) > Score(ms[b]) THEN a ELSE b

\* group.reduce((a, b) => sa >= sb ? a : b) over the first k members.
RECURSIVE Best(_, _, _)
Best(ms, group, k) ==
  IF k = 1 THEN group[1]
  ELSE LET a == Best(ms, group, k - 1)
           b == group[k]
       IN IF Score(ms[a]) >= Score(ms[b]) THEN a ELSE b

\* result.findIndex(m => m.id === id); 0 stands for -1.
FindIndex(h, refs, id) ==
  IF \E i \in 1..Len(refs) : h.objs[refs[i]].id = id
  THEN CHOOSE i \in 1..Len(refs) :
         /\ h.objs[refs[i]].id = id
         /\ \A j \in 1..(i - 1) : h.objs[refs[j]].id # id
  ELSE 0

\* [...new Set(s)]: the first occurrences, in order.
RECURSIVE Unique(_, _)
Unique(s, k) ==
  IF k = 0 THEN <<>>
  ELSE LET rest == Unique(s, k - 1)
       IN IF Includes(rest, s[k]) THEN rest ELSE Append(rest, s[k])

\* A slip: the tag added to the array the record shares with the input.
MergedTagsInPlace(h, tags) ==
  [heap |-> [h EXCEPT !.tagArrs[tags] =
                        Unique(Append(@, "consolidated"), Len(@) + 1)],
   tags |-> tags]

\* tags: [...new Set([...tags, 'consolidated'])], a new array.
MergedTags(h, tags) ==
  LET t == Append(h.tagArrs[tags], "consolidated")
  IN [heap |-> AllocTags(h, Unique(t, Len(t))), tags |-> NewTags(h)]

\* Math.max(...group.map(i => memories[i].importance))
MaxImportance(ms, group) ==
  CHOOSE x \in {ms[group[k]].importance : k \in 1..Len(group)} :
    \A k \in 1..Len(group) : x >= ms[group[k]].importance

\* A slip: only the empty summary skips the cluster.
SummaryNonEmpty(summary) == Len(summary) # 0

\* !summary || summary.length < 10 skips the cluster.
SummaryAccepted(summary) == ~(Len(summary) = 0 \/ Len(summary) < MinSummaryLength)

\* The body of the loop for one cluster once the summarizer has answered
\* with a string: st is [heap, toRemove, totalMerged]; `result` is written
\* in place.
MergeGroup(st, memories, result, group, summary, nowv) ==
  IF ~SummaryAccepted(summary) THEN st
  ELSE LET h == st.heap
           ms == Records(h, memories)
           best == Best(ms, group, Len(group))
           toRemove == st.toRemove \cup (SeqToSet(group) \ {best})
           bestInResult == FindIndex(h, h.arrs[result], ms[best].id)
       IN IF bestInResult = 0
          THEN [heap |-> h, toRemove |-> toRemove,
                totalMerged |-> st.totalMerged + Len(group) - 1]
          ELSE LET old == h.objs[h.arrs[result][bestInResult]]
                   t == MergedTags(h, old.tags)
                   meta == [MetaOf(h, old.metadata) EXCEPT
                              !.consolidatedFrom = Len(group),
                              !.consolidatedAt = nowv]
                   h2 == AllocMeta(t.heap, meta)
                   obj == [old EXCEPT !.content = summary,
                                      !.tags = t.tags,
                                      !.importance = MaxImportance(ms, group),
                                      !.metadata = NewMeta(t.heap)]
                   h3 == AllocObj(h2, obj)
               IN [heap |-> [h3 EXCEPT !.arrs[result][bestInResult] = NewObj(h2)],
                   toRemove |-> toRemove,
                   totalMerged |-> st.totalMerged + Len(group) - 1]

\* A slip: every other cluster.
NextClusterSkips(g) == g + 2

\* for (const group of clusters): the cluster after cluster g.
NextCluster(g) == g + 1

\* ------------------------------------------------------------ consolidate

\* memories.map(m => ({ ...m })) over the first k records.
RECURSIVE CloneMap(_, _, _)
CloneMap(h, refs, k) ==
  IF k = 0 THEN [heap |-> h, out |-> <<>>]
  ELSE LET p == CloneMap(h, refs, k - 1)
       IN [heap |-> AllocObj(p.heap, p.heap.objs[refs[k]]),
           out |-> Append(p.out, NewObj(p.heap))]

Clone(h, memories) ==
  LET r == CloneMap(h, h.arrs[memories], Len(h.arrs[memories]))
  IN [heap |-> AllocArr(r.heap, r.out), memories |-> NewArr(r.heap)]

NoReport ==
  [timestamp |-> -1, durationMs |-> -1,
   before |-> [total |-> 0, byTier |-> [t \in TierSet |-> 0]],
   after |-> [total |-> 0, byTier |-> [t \in TierSet |-> 0]],
   decayed |-> 0, deduplicated |-> 0, clustersFound |-> 0, summarized |-> 0,
   archived |-> 0]

\* A slip: deduplicate given the clone, the result of decay dropped.
Phases12Unthreaded(h, memories, config, nowv) ==
  LET cfg == MergeConfig(config)
      before == countByTier(h, memories)
      c == Clone(h, memories)
      decayResult == decay(c.heap, c.memories, cfg, nowv)
      dedupResult == deduplicate(decayResult.heap, c.memories,
                                 cfg.deduplicateThreshold)
  IN [heap |-> dedupResult.heap, current |-> dedupResult.memories, cfg |-> cfg,
      start |-> nowv, before |-> before, total |-> Len(h.arrs[memories]),
      decayed |-> decayResult.changed, deduplicated |-> dedupResult.removed]

\* Lines 66-78: the configuration, the snapshot, the clone, decay and
\* deduplicate.
Phases12(h, memories, config, nowv) ==
  LET cfg == MergeConfig(config)
      before == countByTier(h, memories)
      c == Clone(h, memories)
      decayResult == decay(c.heap, c.memories, cfg, nowv)
      dedupResult == deduplicate(decayResult.heap, decayResult.memories,
                                 cfg.deduplicateThreshold)
  IN [heap |-> dedupResult.heap, current |-> dedupResult.memories, cfg |-> cfg,
      start |-> nowv, before |-> before, total |-> Len(h.arrs[memories]),
      decayed |-> decayResult.changed, deduplicated |-> dedupResult.removed]

\* Lines 93-112: archive, the second snapshot and the report.
Phase5(h, current, fr, clustersFound, summarized, nowv) ==
  LET archiveResult == archive(h, current, fr.cfg.archiveTruncateLength)
      after == countByTier(archiveResult.heap, archiveResult.memories)
  IN [heap |-> archiveResult.heap, memories |-> archiveResult.memories,
      report |->
        [timestamp |-> nowv, durationMs |-> nowv - fr.start,
         before |-> [total |-> fr.total, byTier |-> fr.before],
         after |-> [total |-> Len(archiveResult.heap.arrs[archiveResult.memories]),
                    byTier |-> after],
         decayed |-> fr.decayed, deduplicated |-> fr.deduplicated,
         clustersFound |-> clustersFound, summarized |-> summarized,
         archived |-> archiveResult.changed]]

\* ------------------------------------------------------- the collections

Str(n) == [i \in 1..n |-> "s"]

Text(n) == [i \in 1..n |-> "c"]

NoConfig == [k \in {} |-> 0]

Mem(tier, embedding, importance, accessCount, createdAt, content, tags, hasMetadata) ==
  [tier |-> tier, embedding |-> embedding, importance |-> importance,
   accessCount |-> accessCount, createdAt |-> createdAt, content |-> content,
   tags |-> tags, hasMetadata |-> hasMetadata]

\* The sequences of at most n records of the palette P.
Collections(P, n) == UNION {[1..k -> P] : k \in 0..n}

\* The heap holding the first k records of recs, each with its own tag array
\* and, when it has one, its own metadata object; ids[i] is the id of i.
RECURSIVE Load(_, _, _)
Load(recs, ids, k) ==
  IF k = 0 THEN EmptyHeap
  ELSE LET h == Load(recs, ids, k - 1)
           r == recs[k]
           h1 == AllocTags(h, r.tags)
           h2 == IF r.hasMetadata THEN AllocMeta(h1, EmptyMeta) ELSE h1
       IN AllocObj(h2,
            [id |-> ids[k], content |-> r.content, embedding |-> r.embedding,
             tags |-> NewTags(h), importance |-> r.importance, tier |-> r.tier,
             createdAt |-> r.createdAt, accessCount |-> r.accessCount,
             metadata |-> IF r.hasMetadata THEN NewMeta(h1) ELSE 0])

\* The caller's array is the first array of the heap.
LoadInput(recs, ids) ==
  AllocArr(Load(recs, ids, Len(recs)), [i \in 1..Len(recs) |-> i])

UniqueIds(recs) == [i \in 1..Len(recs) |-> i]

SameIds(recs) == [i \in 1..Len(recs) |-> 1]

NoFrame ==
  [cfg |-> DEFAULTS, start |-> 0, before |-> [t \in TierSet |-> 0], total |-> 0,
   decayed |-> 0, deduplicated |-> 0, memories |-> 0, clusters |-> <<>>, g |-> 0,
   result |-> 0, toRemove |-> {}, totalMerged |-> 0, merged |-> 0]

NoCall ==
  [op |-> "none", memories |-> 0, snap |-> <<>>, cfg |-> DEFAULTS, threshold |-> 0,
   query |-> <<>>, now |-> 0, summarizer |-> FALSE]

NoRet ==
  [op |-> "none", memories |-> 0, count |-> 0, clusters |-> <<>>, trace |-> <<>>,
   remove |-> {}, report |-> NoReport]

InitWith(recs, ids, clock) ==
  /\ heap = LoadInput(recs, ids)
  /\ input = 1
  /\ now = clock
  /\ pc = "idle"
  /\ frame = NoFrame
  /\ call = NoCall
  /\ ret = NoRet
  /\ log = <<>>
  /\ calls = 0

\* ------------------------------------------------- SpecDecay: decay alone

\* Records of every tier; (importance, accessCount) without effect, with
\* the largest multiplier (importance 1.0) and beyond the access boost's cap.
DecayPalette ==
  {Mem(t, <<1, 0>>, x[1], x[2], 0, Text(1), <<>>, FALSE) :
     t \in TierSet, x \in {<<0, 0>>, <<10, 0>>, <<0, 20>>}}

\* The clock at a call: at a threshold, past it by access boost or by
\* importance, and far past every threshold.
DecayClocks == {7, 13, 22, 1200}

DecayConfigs == <<NoConfig, [hotDays |-> 13, warmDays |-> 12, coldDays |-> 21]>>

InitDecay ==
  \E recs \in Collections(DecayPalette, MaxDecayMems) :
    InitWith(recs, UniqueIds(recs), 0)

\* const { memories } = decay(memories, config), the caller keeping the
\* returned collection.
DecayCall(config, clock) ==
  /\ pc = "idle"
  /\ calls < MaxDecayCalls
  /\ LET r == decay(heap, input, config, clock)
     IN /\ heap' = r.heap
        /\ input' = r.memories
        /\ ret' = [NoRet EXCEPT !.op = "decay", !.memories = r.memories,
                                !.count = r.changed]
  /\ now' = clock
  /\ call' = [NoCall EXCEPT !.op = "decay", !.memories = input,
                            !.snap = DeepArr(heap, input),
                            !.cfg = MergeConfig(config), !.now = clock]
  /\ calls' = calls + 1
  /\ UNCHANGED <<pc, frame, log>>

NextDecay ==
  \E c \in 1..Len(DecayConfigs), clock \in DecayClocks : DecayCall(DecayConfigs[c], clock)

SpecDecay == InitDecay /\ [][NextDecay]_vars

\* The records decay returned, and the records it was given.
Out == DeepArr(heap, ret.memories)

In == call.snap

\* effectiveAge > days, over the integers: with b = min(accessCount, 10)
\* half days of boost and importance i in tenths,
\* (age - b/2) / (1 + 2i/10) > days  iff  10 age - 5 b > days (10 + 2 i).
PastThreshold(m, days, clock) ==
  LET b == IF m.accessCount < 10 THEN m.accessCount ELSE 10
  IN 10 * (clock - m.createdAt) - 5 * b > days * (10 + 2 * m.importance)

ThresholdOf(cfg, tier) ==
  CASE tier = "hot" -> cfg.hotDays
    [] tier = "warm" -> cfg.warmDays
    [] OTHER -> cfg.coldDays

\* C2: across any sequence of decay calls a record's tier never moves to an
\* earlier tier, advances at most one step per call, and archive stays.
C2_TierMonotone ==
  ret.op = "decay" =>
    /\ Len(Out) = Len(In)
    /\ \A i \in 1..Len(In) :
         /\ TierRank(Out[i].tier) >= TierRank(In[i].tier)
         /\ TierRank(Out[i].tier) <= TierRank(In[i].tier) + 1
         /\ In[i].tier = "archive" => Out[i].tier = "archive"

\* A second call in a row moved a record one step although its effective
\* age was past the threshold of its new tier too.
C2_Witness ==
  /\ ret.op = "decay"
  /\ calls = 2
  /\ \E i \in 1..Len(In) :
       /\ In[i].tier = "warm"
       /\ Out[i].tier = "cold"
       /\ PastThreshold(In[i], call.cfg.warmDays, call.now)
       /\ PastThreshold(In[i], call.cfg.coldDays, call.now)
  /\ \E i \in 1..Len(In) : In[i].tier = "archive"

\* C3: decay moves a record to the next tier exactly when its effective age
\* is strictly greater than the threshold of its tier, returns every other
\* record unchanged, and `changed` counts the records whose tier differs.
C3_DecayRule ==
  ret.op = "decay" =>
    /\ Len(Out) = Len(In)
    /\ \A i \in 1..Len(In) :
         IF In[i].tier # "archive"
            /\ PastThreshold(In[i], ThresholdOf(call.cfg, In[i].tier), call.now)
         THEN Out[i] = [In[i] EXCEPT !.tier = Tiers[TierRank(In[i].tier) + 1]]
         ELSE Out[i] = In[i]
    /\ ret.count = Cardinality({i \in 1..Len(In) : Out[i].tier # In[i].tier})

\* One record exactly at its threshold stays, another past it moves.
C3_Witness ==
  /\ ret.op = "decay"
  /\ Len(In) = 2
  /\ ret.count = 1
  /\ \E i \in 1..2 :
       /\ In[i].tier = "hot"
       /\ In[i].accessCount = 0
       /\ 10 * call.now = call.cfg.hotDays * (10 + 2 * In[i].importance)
       /\ Out[i].tier = "hot"
  /\ \E i \in 1..2 : Out[i].tier # In[i].tier

\* ------------------------- SpecMatch: deduplicate, cluster, forget alone

Embeddings == {<<1, 0>>, <<4, 3>>, <<3, 4>>}

\* Warm records that differ in embedding and score (ties among them).
ScorePalette ==
  {Mem("warm", e, x[1], x[2], 0, Text(1), <<>>, FALSE) :
     e \in Embeddings, x \in {<<0, 0>>, <<5, 0>>, <<0, 5>>}}

\* Records of every tier that differ in embedding.
TierPalette ==
  {Mem(t, e, 0, 0, 0, Text(1), <<>>, FALSE) : e \in Embeddings, t \in TierSet}

\* Warm records with an empty, a zero-norm, a shorter and two usual embeddings.
DegeneratePalette ==
  {Mem("warm", e, 0, 0, 0, Text(1), <<>>, FALSE) :
     e \in {<< >>, <<0, 0>>, <<1>>, <<1, 0>>, <<4, 3>>}}

InitMatch ==
  \E recs \in Collections(ScorePalette, MaxMatchMems)
              \cup Collections(TierPalette, MaxMatchMems)
              \cup Collections(DegeneratePalette, MaxMatchMems) :
    InitWith(recs, UniqueIds(recs), 0)

\* 0.92 is the default; 0.8 and 0.6 are similarities of the palette.
DedupThresholds == {92, 80, 70, 0, -50}

ClusterConfigs ==
  <<NoConfig, [minClusterSize |-> 2],
    [clusterThreshold |-> 80, minClusterSize |-> 1],
    [clusterThreshold |-> 0, minClusterSize |-> 2],
    [clusterThreshold |-> 96, minClusterSize |-> 0]>>

Queries == {<<1, 0>>, <<0, 0>>, <<1>>}

ForgetThresholds == {70, 80, 0}

DeduplicateCall(threshold) ==
  /\ pc = "idle"
  /\ LET r == deduplicate(heap, input, threshold)
     IN /\ heap' = r.heap
        /\ ret' = [NoRet EXCEPT !.op = "deduplicate", !.memories = r.memories,
                                !.count = r.removed, !.trace = r.trace,
                                !.remove = r.remove]
  /\ call' = [NoCall EXCEPT !.op = "deduplicate", !.memories = input,
                            !.snap = DeepArr(heap, input), !.threshold = threshold]
  /\ pc' = "returned"
  /\ calls' = calls + 1
  /\ UNCHANGED <<input, now, frame, log>>

ClusterCall(config) ==
  /\ pc = "idle"
  /\ ret' = [NoRet EXCEPT !.op = "cluster", !.clusters = cluster(heap, input, config)]
  /\ call' = [NoCall EXCEPT !.op = "cluster", !.memories = input,
                            !.snap = DeepArr(heap, input),
                            !.cfg = MergeConfig(config),
                            !.threshold = MergeConfig(config).clusterThreshold]
  /\ pc' = "returned"
  /\ calls' = calls + 1
  /\ UNCHANGED <<heap, input, now, frame, log>>

ForgetCall(queryEmbedding, threshold) ==
  /\ pc = "idle"
  /\ LET r == forget(heap, input, queryEmbedding, threshold)
     IN /\ heap' = r.heap
        /\ ret' = [NoRet EXCEPT !.op = "forget", !.memories = r.memories,
                                !.count = r.forgotten]
  /\ call' = [NoCall EXCEPT !.op = "forget", !.memories = input,
                            !.snap = DeepArr(heap, input), !.threshold = threshold,
                            !.query = queryEmbedding]
  /\ pc' = "returned"
  /\ calls' = calls + 1
  /\ UNCHANGED <<input, now, frame, log>>

NextMatch ==
  \/ \E t \in DedupThresholds : DeduplicateCall(t)
  \/ \E c \in 1..Len(ClusterConfigs) : ClusterCall(ClusterConfigs[c])
  \/ \E q \in Queries, t \in ForgetThresholds : ForgetCall(q, t)

SpecMatch == InitMatch /\ [][NextMatch]_vars

Norm2(a) == DotProduct(a, a, Len(a))

\* A pair of unequal lengths, with an empty vector or with a zero-norm one.
Degenerate(a, b) ==
  Len(a) # Len(b) \/ Len(a) = 0 \/ Len(b) = 0 \/ Norm2(a) = 0 \/ Norm2(b) = 0

DegenerateCount(ms, q) ==
  Cardinality({i \in 1..Len(ms) : Degenerate(ms[i].embedding, q)})

\* What C6 says of the last call: the similarity of a degenerate pair is 0,
\* deduplicate removed nothing on comparing such a pair, no group of
\* cluster holds a record that forms such a pair with its seed, and forget
\* kept every record that forms such a pair with the query.
NoDegenerateMatch ==
  /\ \A i, j \in 1..Len(In) :
       Degenerate(In[i].embedding, In[j].embedding) =>
         cosineSimilarity(In[i].embedding, In[j].embedding).dot = 0
  /\ ret.op = "deduplicate" =>
       \A k \in 1..Len(ret.trace) :
         ret.trace[k].removed # 0 =>
           ~Degenerate(In[ret.trace[k].i].embedding, In[ret.trace[k].j].embedding)
  /\ ret.op = "cluster" =>
       \A g \in 1..Len(ret.clusters) : \A k \in 2..Len(ret.clusters[g]) :
         ~Degenerate(In[ret.clusters[g][1]].embedding,
                     In[ret.clusters[g][k]].embedding)
  /\ ret.op = "forget" =>
       /\ \A i \in 1..Len(In) :
            Degenerate(In[i].embedding, call.query) =>
              cosineSimilarity(In[i].embedding, call.query).dot = 0
       /\ DegenerateCount(Out, call.query) = DegenerateCount(In, call.query)

\* C6 as claimed: a degenerate pair is never a match, for any threshold.
C6_AnyThreshold == NoDegenerateMatch

\* C6, amended: a degenerate pair has similarity 0 and is never a match of
\* deduplicate with a threshold >= 0, nor of cluster or forget with a
\* threshold > 0.
C6_PositiveThreshold ==
  (\/ ret.op = "deduplicate" /\ call.threshold >= 0
   \/ ret.op \in {"cluster", "forget"} /\ call.threshold > 0)
    => NoDegenerateMatch

\* Each operation met a degenerate pair under a threshold above 0 and under
\* one that a usual pair of the same collection passed.
C6_Witness ==
  /\ call.threshold > 0
  /\ \/ /\ ret.op = "deduplicate"
        /\ ret.count > 0
        /\ \E k \in 1..Len(ret.trace) :
             /\ ret.trace[k].removed = 0
             /\ Degenerate(In[ret.trace[k].i].embedding, In[ret.trace[k].j].embedding)
     \/ /\ ret.op = "cluster"
        /\ Len(ret.clusters) > 0
        /\ \E i, j \in 1..Len(In) : Degenerate(In[i].embedding, In[j].embedding)
     \/ /\ ret.op = "forget"
        /\ ret.count > 0
        /\ DegenerateCount(In, call.query) > 0

\* C7: every group cluster returns has at least minClusterSize members, no
\* index is in two groups or twice in one, and every member is a warm or
\* cold record.
C7_Groups ==
  ret.op = "cluster" =>
    /\ \A g \in 1..Len(ret.clusters) :
         /\ Len(ret.clusters[g]) >= call.cfg.minClusterSize
         /\ \A k \in 1..Len(ret.clusters[g]) :
              /\ ret.clusters[g][k] \in 1..Len(In)
              /\ In[ret.clusters[g][k]].tier \in {"warm", "cold"}
              /\ \A l \in 1..Len(ret.clusters[g]) :
                   k # l => ret.clusters[g][k] # ret.clusters[g][l]
    /\ \A g1, g2 \in 1..Len(ret.clusters) :
         g1 # g2 => SeqToSet(ret.clusters[g1]) \cap SeqToSet(ret.clusters[g2]) = {}

\* A group of two was kept while a hot or archive record with the embedding
\* of its seed stayed out.
C7_Witness ==
  /\ ret.op = "cluster"
  /\ Len(ret.clusters) = 1
  /\ call.cfg.minClusterSize = 2
  /\ Len(ret.clusters[1]) = 2
  /\ \E i \in 1..Len(In) :
       /\ In[i].tier \in {"hot", "archive"}
       /\ In[i].embedding = In[ret.clusters[1][1]].embedding

\* C10: each pair (i, j), i < j, deduplicate compares has neither record
\* removed yet; if its similarity is strictly above the threshold, j goes
\* when score(i) >= score(j) and i otherwise, and if not, neither goes; a
\* duplicate pair given alone loses exactly that one record.
C10_PairRule ==
  ret.op = "deduplicate" =>
    /\ \A k \in 1..Len(ret.trace) :
         LET e == ret.trace[k]
             dup == SimCmp(cosineSimilarity(In[e.i].embedding, In[e.j].embedding),
                           call.threshold) = 1
             si == In[e.i].importance + In[e.i].accessCount
             sj == In[e.j].importance + In[e.j].accessCount
         IN /\ e.i < e.j
            /\ e.i \notin e.before
            /\ e.j \notin e.before
            /\ e.removed = (IF ~dup THEN 0 ELSE IF si >= sj THEN e.j ELSE e.i)
    /\ (Len(In) = 2 /\ SimCmp(cosineSimilarity(In[1].embedding, In[2].embedding),
                              call.threshold) = 1) =>
         /\ ret.count = 1
         /\ Out = IF In[1].importance + In[1].accessCount
                     >= In[2].importance + In[2].accessCount
                  THEN <<In[1]>> ELSE <<In[2]>>

\* Two records of equal score and similarity above the threshold: the later
\* one went; and a pair whose similarity is the threshold: both stayed.
C10_Witness ==
  /\ ret.op = "deduplicate"
  /\ Len(In) = 3
  /\ ret.remove = {2}
  /\ In[1].importance + In[1].accessCount = In[2].importance + In[2].accessCount
  /\ In[1].importance # In[2].importance
  /\ SimCmp(cosineSimilarity(In[1].embedding, In[3].embedding), call.threshold) = 0

\* ------------------------------------------------ Spec: consolidate

\* The clock when consolidate is called.
PipeClocks == {400}

\* Records that decay (created 400 days ago) or stay (created yesterday),
\* duplicates at 0.92 (<<4, 3>> and <<3, 4>>), neighbours at 0.78 (<<1, 0>>
\* and <<4, 3>>), content longer than the truncation lengths of PipeConfigs,
\* tags with and without `consolidated`, with and without metadata.
PipePalette ==
  {Mem("hot", <<1, 0>>, 0, 0, 0, Text(2), <<>>, FALSE),
   Mem("warm", <<4, 3>>, 5, 0, 399, Text(3), <<"x">>, TRUE),
   Mem("warm", <<3, 4>>, 0, 5, 399, Text(3), <<"consolidated">>, FALSE),
   Mem("warm", <<1, 0>>, 10, 0, 399, Text(1), <<"x", "x">>, FALSE),
   Mem("cold", <<1, 0>>, 0, 0, 0, Text(4), <<>>, FALSE),
   Mem("cold", <<3, 4>>, 10, 20, 399, Text(3), <<"x">>, TRUE),
   Mem("archive", <<4, 3>>, 10, 0, 0, Text(4), <<"consolidated">>, FALSE),
   Mem("archive", << >>, 0, 0, 0, Text(5), <<"x">>, TRUE)}

PipeConfigs ==
  <<NoConfig,
    [minClusterSize |-> 1, deduplicateThreshold |-> 96, archiveTruncateLength |-> 2],
    [minClusterSize |-> 2, deduplicateThreshold |-> 96, archiveTruncateLength |-> 3]>>

\* What the summarizer does with one invocation: it rejects (or throws), or
\* resolves with an empty string, one of 9 characters or one of 10.
Outcomes ==
  {[ok |-> FALSE, summary |-> <<>>], [ok |-> TRUE, summary |-> <<>>],
   [ok |-> TRUE, summary |-> Str(MinSummaryLength - 1)],
   [ok |-> TRUE, summary |-> Str(MinSummaryLength)]}

Init ==
  \E recs \in Collections(PipePalette, MaxPipeMems) : \E clock \in PipeClocks :
    \/ InitWith(recs, UniqueIds(recs), clock)
    \/ InitWith(recs, SameIds(recs), clock)

\* consolidate(memories, config, summarizer) up to its first await or, with
\* nothing to await, to its return.
ConsolidateCall(config, summarizer) ==
  /\ pc = "idle"
  /\ \E p \in {Phases12(heap, input, config, now)} :
     \E clusters \in {IF summarizer THEN cluster(p.heap, p.current, p.cfg) ELSE <<>>} :
     \E fr \in {[NoFrame EXCEPT !.cfg = p.cfg, !.start = p.start,
                                !.before = p.before, !.total = p.total,
                                !.decayed = p.decayed,
                                !.deduplicated = p.deduplicated,
                                !.memories = p.current, !.clusters = clusters]} :
       IF Len(clusters) > 0
       THEN \* summarizeClusters: result = [...memories], then the first
            \* summarizer.summarize(texts)
            /\ heap' = AllocArr(p.heap, p.heap.arrs[p.current])
            /\ frame' = [fr EXCEPT !.result = NewArr(p.heap), !.g = 1]
            /\ log' = <<[ev |-> "call", g |-> 1, ok |-> TRUE,
                         texts |-> Texts(p.heap, p.current, clusters[1])]>>
            /\ pc' = "awaiting"
            /\ ret' = NoRet
       ELSE \E f \in {Phase5(p.heap, p.current, fr, Len(clusters), 0, now)} :
              /\ heap' = f.heap
              /\ frame' = [fr EXCEPT !.merged = p.current]
              /\ log' = <<>>
              /\ pc' = "returned"
              /\ ret' = [NoRet EXCEPT !.op = "consolidate",
                                      !.memories = f.memories,
                                      !.report = f.report]
  /\ call' = [NoCall EXCEPT !.op = "consolidate", !.memories = input,
                            !.snap = DeepArr(heap, input),
                            !.cfg = MergeConfig(config), !.now = now,
                            !.summarizer = summarizer]
  /\ calls' = calls + 1
  /\ UNCHANGED <<input, now>>

\* The awaited summarizer.summarize settles; consolidate runs on to its next
\* await or to its return.
SummarizerSettle(outcome) ==
  /\ pc = "awaiting"
  /\ \E st0 \in {[heap |-> heap, toRemove |-> frame.toRemove,
                  totalMerged |-> frame.totalMerged]} :
     \E st \in {IF outcome.ok
                THEN MergeGroup(st0, frame.memories, frame.result,
                                frame.clusters[frame.g], outcome.summary, now)
                ELSE st0} :
     \E n \in {NextCluster(frame.g)} :
     \E settled \in {Append(log, [ev |-> "settle", g |-> frame.g,
                                  ok |-> outcome.ok,
                                  texts |-> outcome.summary])} :
     \E fr \in {[frame EXCEPT !.toRemove = st.toRemove,
                              !.totalMerged = st.totalMerged, !.g = n]} :
       IF n \in 1..Len(frame.clusters)
       THEN /\ heap' = st.heap
            /\ frame' = fr
            /\ log' = Append(settled,
                             [ev |-> "call", g |-> n, ok |-> TRUE,
                              texts |-> Texts(st.heap, frame.memories,
                                              frame.clusters[n])])
            /\ pc' = "awaiting"
            /\ ret' = ret
       ELSE \* return { memories: result.filter(...), merged }, then phase 5
            \E h \in {AllocArr(st.heap,
                               FilterOut(st.heap.arrs[frame.result], st.toRemove,
                                         Len(st.heap.arrs[frame.result])))} :
            \E f \in {Phase5(h, NewArr(st.heap), frame, Len(frame.clusters),
                             st.totalMerged, now)} :
              /\ heap' = f.heap
              /\ frame' = [fr EXCEPT !.merged = NewArr(st.heap)]
              /\ log' = settled
              /\ pc' = "returned"
              /\ ret' = [NoRet EXCEPT !.op = "consolidate",
                                      !.memories = f.memories,
                                      !.report = f.report]
  /\ UNCHANGED <<input, now, call, calls>>

\* Time passes while the summarizer is awaited.
Tick ==
  /\ pc = "awaiting"
  /\ now < frame.start + MaxTicks
  /\ now' = now + 1
  /\ UNCHANGED <<heap, input, pc, frame, call, ret, log, calls>>

Next ==
  \/ \E c \in 1..Len(PipeConfigs), s \in BOOLEAN : ConsolidateCall(PipeConfigs[c], s)
  \/ \E o \in Outcomes : SummarizerSettle(o)
  \/ Tick

Spec == Init /\ [][Next]_vars

\* C1: consolidate leaves the caller's array and every field of every
\* record of it as they were before the call, while it awaits and after it
\* has returned.
C1_InputUntouched ==
  call.op = "consolidate" => DeepArr(heap, input) = In

\* consolidate returned after it decayed a record and merged a cluster
\* whose representative had tags and metadata of the caller's.
C1_Witness ==
  /\ pc = "returned"
  /\ ret.report.decayed > 0
  /\ ret.report.summarized > 0
  /\ \E i \in 1..Len(Out) :
       /\ Out[i].metadata.consolidatedFrom > 1
       /\ Includes(Out[i].tags, "x")

\* The working collection summarizeClusters was given, what it returned,
\* and what the summarizer answered for cluster g.
Pre == DeepArr(heap, frame.memories)

Merged == DeepArr(heap, frame.merged)

Answer(g) == log[2 * g]

Accepted(g) == Answer(g).ok /\ Len(Answer(g).texts) >= 10

DistinctIds(ms) == \A i, j \in 1..Len(ms) : i # j => ms[i].id # ms[j].id

NoRepeat(s) == \A i, j \in 1..Len(s) : i # j => s[i] # s[j]

ScoreOf(m) == m.importance + m.accessCount

\* The member of the group with the highest score, the first of them in
\* group order.
Representative(ms, group) ==
  group[CHOOSE k \in 1..Len(group) :
          /\ \A l \in 1..(k - 1) : ScoreOf(ms[group[l]]) < ScoreOf(ms[group[k]])
          /\ \A l \in (k + 1)..Len(group) :
               ScoreOf(ms[group[l]]) <= ScoreOf(ms[group[k]])]

\* C4: of a cluster whose summary is accepted, given unique ids, the merge
\* output holds exactly one member: the highest-scored one (the first on
\* equal scores), its content the summary, its tags those it had plus
\* `consolidated` without duplicates, its importance the cluster's maximum.
C4_MergedCluster ==
  (pc = "returned" /\ call.summarizer /\ DistinctIds(Pre)) =>
    \A g \in 1..Len(frame.clusters) :
      Accepted(g) =>
        LET group == frame.clusters[g]
            b == Representative(Pre, group)
            kept == {k \in 1..Len(Merged) :
                       \E i \in 1..Len(group) : Merged[k].id = Pre[group[i]].id}
        IN /\ Cardinality(kept) = 1
           /\ \A k \in kept :
                /\ Merged[k].id = Pre[b].id
                /\ Merged[k].content = Answer(g).texts
                /\ SeqToSet(Merged[k].tags) = SeqToSet(Pre[b].tags) \cup {"consolidated"}
                /\ NoRepeat(Merged[k].tags)
                /\ \A i \in 1..Len(group) :
                     Merged[k].importance >= Pre[group[i]].importance
                /\ \E i \in 1..Len(group) :
                     Merged[k].importance = Pre[group[i]].importance

\* A cluster of two of equal score was merged into its first member, whose
\* importance was not the cluster's maximum.
C4_Witness ==
  /\ pc = "returned"
  /\ call.summarizer
  /\ DistinctIds(Pre)
  /\ \E g \in 1..Len(frame.clusters) :
       /\ Accepted(g)
       /\ Len(frame.clusters[g]) = 2
       /\ ScoreOf(Pre[frame.clusters[g][1]]) = ScoreOf(Pre[frame.clusters[g][2]])
       /\ Pre[frame.clusters[g][1]].importance < Pre[frame.clusters[g][2]].importance
       /\ Len(Merged) = Len(Pre) - 1

\* The number of records in s equal to m.
Copies(s, m) == Cardinality({k \in 1..Len(s) : s[k] = m})

\* The sum over the accepted clusters of their size less one.
RECURSIVE MergedCount(_)
MergedCount(g) ==
  IF g = 0 THEN 0
  ELSE MergedCount(g - 1) + (IF Accepted(g) THEN Len(frame.clusters[g]) - 1 ELSE 0)

CallsFor(g) == Cardinality({k \in 1..Len(log) : log[k].ev = "call" /\ log[k].g = g})

\* What C5 says of a call that has returned: every member of a cluster whose
\* summary failed or was too short is in the output as it was, such a
\* cluster adds nothing to `summarized`, the summarizer was called once for
\* it, and once for every later cluster.
FailedClustersKept ==
  /\ ret.op = "consolidate"
  /\ ret.report.before.total = Len(In)
  /\ ret.report.summarized = MergedCount(Len(frame.clusters))
  /\ ret.report.clustersFound = Len(frame.clusters)
  /\ \A g \in 1..Len(frame.clusters) :
       /\ CallsFor(g) = 1
       /\ ~Accepted(g) =>
            \A i \in 1..Len(frame.clusters[g]) :
              Copies(Out, Pre[frame.clusters[g][i]])
                >= Copies([k \in 1..Len(frame.clusters[g]) |-> Pre[frame.clusters[g][k]]],
                          Pre[frame.clusters[g][i]])

C8_OneAtATime ==
  call.op = "consolidate" =>
    /\ \A k \in 1..Len(log) :
         /\ log[k].ev = (IF k % 2 = 1 THEN "call" ELSE "settle")
         /\ log[k].g = (k + 1) \div 2
         /\ log[k].g \in 1..Len(frame.clusters)
         /\ log[k].ev = "call" =>
              log[k].texts = [i \in 1..Len(frame.clusters[log[k].g]) |->
                                Pre[frame.clusters[log[k].g][i]].content]
    /\ pc = "awaiting" => Len(log) % 2 = 1
    /\ pc = "returned" => Len(log) = 2 * Len(frame.clusters)
    /\ ~call.summarizer => Len(frame.clusters) = 0

\* Two clusters were summarized, the first of them failing.
C8_Witness ==
  /\ pc = "returned"
  /\ Len(log) = 4
  /\ ~log[2].ok
  /\ log[4].ok
  /\ now > call.now

\* C9: without a summarizer consolidate returns what decay, then
\* deduplicate, then archive make of the input, reports their counts in
\* `decayed`, `deduplicated` and `archived`, and finds and merges nothing.
C9_ThreePhases ==
  (pc = "returned" /\ ~call.summarizer) =>
    LET d == decay(heap, input, call.cfg, call.now)
        dd == deduplicate(d.heap, d.memories, call.cfg.deduplicateThreshold)
        a == archive(dd.heap, dd.memories, call.cfg.archiveTruncateLength)
    IN /\ Out = DeepArr(a.heap, a.memories)
       /\ ret.report.decayed = d.changed
       /\ ret.report.deduplicated = dd.removed
       /\ ret.report.archived = a.changed
       /\ ret.report.clustersFound = 0
       /\ ret.report.summarized = 0
       /\ log = <<>>

\* A cold record decayed into archive and was truncated in the same run,
\* and a duplicate was removed.
C9_Witness ==
  /\ pc = "returned"
  /\ ~call.summarizer
  /\ ret.report.deduplicated = 1
  /\ \E i \in 1..Len(In) : \E k \in 1..Len(Out) :
       /\ In[i].tier = "cold"
       /\ Out[k].id = In[i].id
       /\ Out[k].tier = "archive"
       /\ Out[k].metadata.truncated
       /\ Out[k].metadata.originalLength = Len(In[i].content)

\* ------------------------------- SpecMatch: deduplicate and forget, whole

\* The record objects the caller's array and the returned array refer to.
InRefs == heap.arrs[call.memories]

OutRefs == heap.arrs[ret.memories]

\* s is t with some entries left out: an increasing choice of positions of
\* t gives s.
IsSubSeq(s, t) ==
  \E f \in [1..Len(s) -> 1..Len(t)] :
    /\ \A k \in 1..Len(s) : t[f[k]] = s[k]
    /\ \A k, l \in 1..Len(s) : k < l => f[k] < f[l]

\* C11: deduplicate returns a sub-sequence of its input: output length +
\* removed = input length, the survivors are the input's own records in
\* their order with no field changed, and an input of fewer than 2 records
\* is returned with removed = 0.
C11_SubSequence ==
  ret.op = "deduplicate" =>
    /\ Len(Out) + ret.count = Len(In)
    /\ IsSubSeq(OutRefs, InRefs)
    /\ IsSubSeq(Out, In)
    /\ \A k \in 1..Len(InRefs) : DeepMem(heap, InRefs[k]) = In[k]
    /\ Len(In) < 2 => (ret.count = 0 /\ Out = In /\ ret.memories = call.memories)

\* Of three records the first, lower-scored than its duplicate, went and
\* the other two came back in their order.
C11_Witness ==
  /\ ret.op = "deduplicate"
  /\ Len(In) = 3
  /\ ret.count = 1
  /\ OutRefs = <<InRefs[2], InRefs[3]>>
  /\ In[2] # In[3]

\* --------------------------------------------- SpecArchive: archive alone

\* Archive records longer than, as long as and shorter than a truncation
\* length, with and without the tag `consolidated` and a metadata object,
\* and a cold record.
ArchivePalette ==
  {Mem("archive", <<1, 0>>, 0, 0, 0, Text(6), <<>>, FALSE),
   Mem("archive", <<1, 0>>, 0, 0, 0, Text(3), <<"x">>, TRUE),
   Mem("archive", <<1, 0>>, 0, 0, 0, Text(2), <<>>, FALSE),
   Mem("archive", <<1, 0>>, 0, 0, 0, Text(6), <<"x", "consolidated">>, TRUE),
   Mem("cold", <<1, 0>>, 0, 0, 0, Text(6), <<>>, FALSE)}

\* 0 disables truncation; so does a negative length.
TruncateLengths == {2, 3, 0, -1}

InitArchive ==
  \E recs \in Collections(ArchivePalette, MaxArchiveMems) :
    InitWith(recs, UniqueIds(recs), 0)

\* archive(memories, truncateLength), the caller keeping the returned
\* collection, as consolidate does from one run to the next; the log keeps
\* the truncation length of each call.
ArchiveCall(truncateLength) ==
  /\ pc = "idle"
  /\ calls < MaxArchiveCalls
  /\ \E r \in {archive(heap, input, truncateLength)} :
       /\ heap' = r.heap
       /\ input' = r.memories
       /\ ret' = [NoRet EXCEPT !.op = "archive", !.memories = r.memories,
                               !.count = r.changed]
  /\ call' = [NoCall EXCEPT !.op = "archive", !.memories = input,
                            !.snap = DeepArr(heap, input),
                            !.threshold = truncateLength]
  /\ log' = Append(log, truncateLength)
  /\ calls' = calls + 1
  /\ UNCHANGED <<now, pc, frame>>

NextArchive == \E t \in TruncateLengths : ArchiveCall(t)

SpecArchive == InitArchive /\ [][NextArchive]_vars

\* The condition of the claim on a record as the caller gave it.
TruncationDue(m, truncateLength) ==
  /\ truncateLength > 0
  /\ m.tier = "archive"
  /\ Len(m.content) > truncateLength
  /\ \A k \in 1..Len(m.tags) : m.tags[k] # "consolidated"

\* C12: archive with truncateLength > 0 changes a record exactly when its
\* tier is archive, its content is longer than truncateLength and its tags
\* lack `consolidated`: the content becomes its first truncateLength
\* characters and the ellipsis, the metadata gains truncated = true and
\* originalLength = the previous length; every other record is returned as
\* it is, `changed` counts the changed records, and with
\* truncateLength <= 0 nothing is changed.
C12_ArchiveRule ==
  ret.op = "archive" =>
    /\ Len(Out) = Len(In)
    /\ DeepArr(heap, call.memories) = In
    /\ \A k \in 1..Len(In) :
         IF TruncationDue(In[k], call.threshold)
         THEN /\ Out[k] = [In[k] EXCEPT
                             !.content = SubSeq(@, 1, call.threshold) \o <<".", ".", ".">>,
                             !.hasMetadata = TRUE,
                             !.metadata = [@ EXCEPT !.truncated = TRUE,
                                                    !.originalLength = Len(In[k].content)]]
              /\ OutRefs[k] # InRefs[k]
         ELSE /\ Out[k] = In[k]
              /\ OutRefs[k] = InRefs[k]
    /\ ret.count = Cardinality({k \in 1..Len(In) : TruncationDue(In[k], call.threshold)})
    /\ call.threshold <= 0 => (ret.count = 0 /\ ret.memories = call.memories)

\* An archive record with tags and metadata was truncated next to an
\* archive record of exactly the truncation length, which was not.
C12_Witness ==
  /\ ret.op = "archive"
  /\ calls = 1
  /\ ret.count = 1
  /\ Len(In) = 2
  /\ call.threshold = 2
  /\ In[1].hasMetadata
  /\ Len(Out[1].content) = 5
  /\ In[2].tier = "archive"
  /\ Len(In[2].content) = 2

\* C17: archive applied to its own output with the same truncateLength > 0
\* changes nothing: changed = 0, and originalLength stays the length of the
\* untruncated content.
C17_ArchiveIdempotent ==
  (/\ ret.op = "archive"
   /\ Len(log) >= 2
   /\ log[Len(log)] > 0
   /\ log[Len(log) - 1] = log[Len(log)])
    => (ret.count = 0 /\ Out = In)

\* The positions of the caller's records whose similarity to the query is
\* strictly below the threshold.
BelowThreshold ==
  {k \in 1..Len(In) :
     SimCmp(cosineSimilarity(In[k].embedding, call.query), call.threshold) = -1}

\* C13: forget returns exactly the input records whose similarity to the
\* query is strictly less than threshold, in their order and unchanged (one
\* at the threshold is forgotten), and forgotten + survivors = input length.
C13_ForgetRule ==
  ret.op = "forget" =>
    /\ IsSubSeq(OutRefs, InRefs)
    /\ SeqToSet(OutRefs) = {InRefs[k] : k \in BelowThreshold}
    /\ Len(OutRefs) = Cardinality(BelowThreshold)
    /\ DeepArr(heap, call.memories) = In
    /\ IsSubSeq(Out, In)
    /\ ret.count + Len(Out) = Len(In)

\* Of three records the second, at exactly the threshold, was forgotten and
\* the two below it came back in their order.
C13_Witness ==
  /\ ret.op = "forget"
  /\ Len(In) = 3
  /\ SimCmp(cosineSimilarity(In[2].embedding, call.query), call.threshold) = 0
  /\ call.threshold > 0
  /\ ret.count = 1
  /\ OutRefs = <<InRefs[1], InRefs[3]>>

\* ------------------------------------------------ Spec: the report

\* The number of records of ms in tier t.
InTier(ms, t) == Cardinality({k \in 1..Len(ms) : ms[k].tier = t})

TierSum(byTier) == byTier["hot"] + byTier["warm"] + byTier["cold"] + byTier["archive"]

\* C14: the report of every consolidate call accounts for every record:
\* after.total is the length of the returned collection and is
\* before.total - deduplicated - summarized, before is counted on the input
\* as given, and the four byTier counts of each snapshot sum to its total.
C14_ReportAccounts ==
  (pc = "returned" /\ ret.op = "consolidate") =>
    /\ ret.report.after.total = Len(Out)
    /\ ret.report.after.total
         = ret.report.before.total - ret.report.deduplicated - ret.report.summarized
    /\ ret.report.before.total = Len(In)
    /\ \A t \in TierSet :
         /\ ret.report.before.byTier[t] = InTier(In, t)
         /\ ret.report.after.byTier[t] = InTier(Out, t)
    /\ TierSum(ret.report.before.byTier) = ret.report.before.total
    /\ TierSum(ret.report.after.byTier) = ret.report.after.total

\* Of three records one went as a duplicate and one into a merged cluster,
\* after a record had decayed out of the tier it was counted in.
C14_Witness ==
  /\ pc = "returned"
  /\ ret.op = "consolidate"
  /\ ret.report.before.total = 3
  /\ ret.report.deduplicated = 1
  /\ ret.report.summarized = 1
  /\ ret.report.decayed > 0
  /\ Len(log) = 2
  /\ ret.report.before.byTier # ret.report.after.byTier
  /\ ret.report.before.byTier["hot"] = 2

\* ------------------------------------ SpecMatch: the pass of deduplicate

\* Strictly above the threshold of the call.
TooSimilar(a, b) ==
  SimCmp(cosineSimilarity(a.embedding, b.embedding), call.threshold) = 1

\* C15: every record deduplicate removed has similarity strictly above the
\* threshold to a record of the output.
C15_RemovedHasSurvivor ==
  ret.op = "deduplicate" =>
    \A i \in ret.remove : \E k \in 1..Len(Out) : TooSimilar(In[i], Out[k])

\* C16: no two records of the output of deduplicate have similarity
\* strictly above the threshold, every surviving pair was compared, and
\* deduplicate applied to the output with the same threshold removes
\* nothing.
C16_NoDuplicatesLeft ==
  ret.op = "deduplicate" =>
    /\ \A k, l \in 1..Len(Out) : k # l => ~TooSimilar(Out[k], Out[l])
    /\ \A i, j \in 1..Len(In) :
         (i < j /\ i \notin ret.remove /\ j \notin ret.remove) =>
           \E e \in 1..Len(ret.trace) : ret.trace[e].i = i /\ ret.trace[e].j = j
    /\ deduplicate(heap, ret.memories, call.threshold).removed = 0

\* Of three records the second went as a duplicate of the first, and the
\* two that stayed have a similarity of exactly the threshold.
C16_Witness ==
  /\ ret.op = "deduplicate"
  /\ Len(In) = 3
  /\ ret.remove = {2}
  /\ call.threshold > 0
  /\ SimCmp(cosineSimilarity(In[1].embedding, In[3].embedding), call.threshold) = 0

====
